---- MODULE Spec2Model ----
(***************************************************************************)
(* A model of humanoid/utils/logger.py (class Logger) and of               *)
(* humanoid/data_analyzer.py (parse_log_data, calculate_stats).            *)
(*                                                                         *)
(* Python values are modelled as records [kind, v]: kind is the Python     *)
(* type ("float", "list", "ndarray", "tensor") and v the numbers it holds  *)
(* (a one-element sequence for a float).  A dict is a function whose       *)
(* DOMAIN is its key set.  Floating point numbers are integers here; a     *)
(* quotient is kept as the pair <<numerator, denominator>>.                *)
(***************************************************************************)
EXTENDS Integers, Sequences, FiniteSets, TLC

VARIABLES
    \* ---- Logger (logger.py) ----
    dt,             \* self.dt
    state_log,      \* self.state_log : key -> list of values
    rew_log,        \* self.rew_log   : key -> list of floats
    num_episodes,   \* self.num_episodes
    plot_process,   \* self.plot_process : 0 (None) or an index into procs
    procs,          \* the OS processes started by plot_states, each "running",
                    \* "exited" or "killed"
    alive,          \* FALSE once __del__ has run
    fs,             \* the files under save_dir: suffix -> content
    dir_made,       \* save_dir exists
    lastOp,         \* the last call: its name, arguments, the exception it ended in
                    \* ("none" when it returned) and what it printed
    calls,          \* number of Logger calls made so far
    \* ---- parse_log_data (data_analyzer.py) ----
    lines,          \* the log file, a sequence of lines
    pos,            \* number of lines consumed by the for loop
    current_step,   \* current_step (NoStep stands for None)
    steps,          \* steps
    data_matrix,    \* data_matrix (list of lists)
    parsed,         \* the value returned / the exception raised
    \* ---- calculate_stats (data_analyzer.py) ----
    matrix,         \* the argument of calculate_stats
    stats           \* its result (NoStats before the call)

loggerVars == <<dt, state_log, rew_log, num_episodes, plot_process, procs, alive,
                fs, dir_made, lastOp, calls>>
parseVars  == <<lines, pos, current_step, steps, data_matrix, parsed>>
statsVars  == <<matrix, stats>>
vars       == <<loggerVars, parseVars, statsVars>>

----------------------------------------------------------------------------
\* Bounds of the model.
MaxCalls == 4       \* Logger calls per behaviour

----------------------------------------------------------------------------
\* Python values.
F(x)  == [kind |-> "float",   v |-> <<x>>]
L(s)  == [kind |-> "list",    v |-> s]
Nd(s) == [kind |-> "ndarray", v |-> s]
T(s)  == [kind |-> "tensor",  v |-> s]

\* dict helpers: a defaultdict(list) read, and an item assignment.
EmptyDict == [k \in {} |-> <<>>]
Get(log, k) == IF k \in DOMAIN log THEN log[k] ELSE <<>>
Put(log, k, val) == [x \in (DOMAIN log) \cup {k} |-> IF x = k THEN val ELSE log[x]]

RECURSIVE SumSeq(_)
SumSeq(s) == IF s = <<>> THEN 0 ELSE Head(s) + SumSeq(Tail(s))

\* The inputs the calls are given.
DtValues     == {1, 2}
StateKeys    == {"dof_pos", "contact_forces_z"}
StateValues  == {F(1), Nd(<<1, 2>>), T(<<1, 2>>)}
\* keys are character sequences where the code looks inside them; the values of a
\* reward mapping are scalar tensors, given here by what value.item() returns
KeyRew       == <<"t", "o", "t", "a", "l", "_", "r", "e", "w">>
KeyBrew      == <<"b", "r", "e", "w">>
KeyCmd       == <<"c", "m", "d">>
RewMappings  == { [k \in {KeyRew} |-> 2],
                  [k \in {KeyRew, KeyCmd} |-> IF k = KeyRew THEN 1 ELSE 5],
                  [k \in {KeyBrew, KeyCmd} |-> 3] }
EpisodeCounts == {0, 3, 5}
Formats      == {"json", "pkl", "csv"}

----------------------------------------------------------------------------
\* Logger.__init__
NoFile == [kind |-> "absent", body |-> EmptyDict]
NoOp   == [op |-> "init", arg |-> <<>>, err |-> "none", out |-> EmptyDict]

LoggerInit ==
    /\ dt \in DtValues
    /\ state_log = EmptyDict
    /\ rew_log = EmptyDict
    /\ num_episodes = 0
    /\ plot_process = 0
    /\ procs = <<>>
    /\ alive = TRUE
    /\ fs = [f \in {"json", "pkl"} |-> NoFile]
    /\ dir_made = FALSE
    /\ lastOp = NoOp
    /\ calls = 0

\* A call is made on a live logger; the call leaves the analyzer's variables alone.
CanCall == alive /\ calls < MaxCalls
Called(op, arg, err, out) ==
    /\ lastOp' = [op |-> op, arg |-> arg, err |-> err, out |-> out]
    /\ calls' = calls + 1
    /\ UNCHANGED <<parseVars, statsVars>>

\* Logger.log_state
log_state(key, value) ==
    /\ CanCall
    /\ state_log' = Put(state_log, key, Append(Get(state_log, key), value))
    /\ Called("log_state", <<key, value>>, "none", EmptyDict)
    /\ UNCHANGED <<dt, rew_log, num_episodes, plot_process, procs, alive, fs, dir_made>>

\* "rew" in key
RECURSIVE HasRewAt(_, _)
HasRewAt(key, i) ==
    IF i + 2 > Len(key) THEN FALSE
    ELSE IF key[i] = "r" /\ key[i + 1] = "e" /\ key[i + 2] = "w" THEN TRUE
    ELSE HasRewAt(key, i + 1)
IsRewKey(key) == HasRewAt(key, 1)

\* Logger.log_rewards: value.item() * num_episodes appended under every key that
\* contains "rew"; the count is added once, after the loop.
RewKeys(dict) == {k \in DOMAIN dict : IsRewKey(k)}
AppendRewards(log, dict, n) ==
    [k \in (DOMAIN log) \cup RewKeys(dict) |->
        IF k \in RewKeys(dict) THEN Append(Get(log, k), F(dict[k] * n)) ELSE log[k]]
\* (variant: the count is added inside the loop, once per entry)
log_rewards_per_entry(dict, n) ==
    /\ CanCall
    /\ rew_log' = AppendRewards(rew_log, dict, n)
    /\ num_episodes' = num_episodes + n * Cardinality(DOMAIN dict)
    /\ Called("log_rewards", <<dict, n>>, "none", EmptyDict)
    /\ UNCHANGED <<dt, state_log, plot_process, procs, alive, fs, dir_made>>
log_rewards(dict, n) ==
    /\ CanCall
    /\ rew_log' = AppendRewards(rew_log, dict, n)
    /\ num_episodes' = num_episodes + n
    /\ Called("log_rewards", <<dict, n>>, "none", EmptyDict)
    /\ UNCHANGED <<dt, state_log, plot_process, procs, alive, fs, dir_made>>

\* (variant: reset also zeroes the episode count)
reset_all ==
    /\ CanCall
    /\ state_log' = EmptyDict
    /\ rew_log' = EmptyDict
    /\ num_episodes' = 0
    /\ Called("reset", <<>>, "none", EmptyDict)
    /\ UNCHANGED <<dt, plot_process, procs, alive, fs, dir_made>>
\* Logger.reset
reset ==
    /\ CanCall
    /\ state_log' = EmptyDict
    /\ rew_log' = EmptyDict
    /\ Called("reset", <<>>, "none", EmptyDict)
    /\ UNCHANGED <<dt, num_episodes, plot_process, procs, alive, fs, dir_made>>

\* Logger.print_rewards: np.sum(np.array(values)) / self.num_episodes per series.
\* numpy's float division by zero yields inf or nan (a warning, no exception):
\* the quotient <<s, 0>> stands for that non-finite result.
Divide(s, n) == <<s, n>>
IsFinite(q) == q[2] # 0
SeriesSum(values) == SumSeq([i \in 1..Len(values) |-> values[i].v[1]])
\* (variant: the mean over the samples of the series, not over the episodes)
RewardMeansPerSample(log, n) ==
    [k \in DOMAIN log |-> Divide(SeriesSum(log[k]), Len(log[k]))]
RewardMeans(log, n) == [k \in DOMAIN log |-> Divide(SeriesSum(log[k]), n)]
print_rewards ==
    /\ CanCall
    /\ Called("print_rewards", <<>>, "none", RewardMeans(rew_log, num_episodes))
    /\ UNCHANGED <<dt, state_log, rew_log, num_episodes, plot_process, procs, alive,
                   fs, dir_made>>

----------------------------------------------------------------------------
\* Logger._convert_log.  Only values[0] decides the branch taken for a series:
\*   hasattr(values[0], "cpu")         -> [v.cpu().numpy().tolist() for v in values]
\*   isinstance(values[0], np.ndarray) -> [v.tolist() for v in values]
\*   otherwise                         -> values, as they are
\* A float or a list has neither .cpu nor .tolist, an ndarray has no .cpu: the
\* comprehension raises AttributeError on such an element.
ToList(value) == L(value.v)
HasCpu(value)    == value.kind = "tensor"
HasToList(value) == value.kind \in {"ndarray", "tensor"}
ConvertSeriesErr(values) ==
    IF Len(values) = 0 THEN "none"
    ELSE IF HasCpu(values[1])
         THEN IF \A i \in 1..Len(values) : HasCpu(values[i])
              THEN "none" ELSE "AttributeError"
    ELSE IF values[1].kind = "ndarray"
         THEN IF \A i \in 1..Len(values) : HasToList(values[i])
              THEN "none" ELSE "AttributeError"
    ELSE "none"
ConvertSeries(values) ==
    IF Len(values) = 0 THEN values
    ELSE IF HasCpu(values[1]) \/ values[1].kind = "ndarray"
         THEN [i \in 1..Len(values) |-> ToList(values[i])]
    ELSE values
convert_log_err(log) ==
    IF \E k \in DOMAIN log : ConvertSeriesErr(log[k]) # "none"
    THEN "AttributeError" ELSE "none"
convert_log(log) == [k \in DOMAIN log |-> ConvertSeries(log[k])]

\* The dict Logger.save serialises.
SaveData(d, s, r, n) == [dt |-> d, state_log |-> s, rew_log |-> r, num_episodes |-> n]

\* json.dump: a float is written as a number, a list as an array; an ndarray or a
\* tensor is not JSON serialisable (TypeError), and the file, already opened for
\* writing, is left truncated.
IsPlain(value) == value.kind \in {"float", "list"}
PlainLog(log) == \A k \in DOMAIN log : \A i \in 1..Len(log[k]) : IsPlain(log[k][i])
JsonSerialisable(data) == PlainLog(data.state_log) /\ PlainLog(data.rew_log)
JsonEncodeValue(value) ==
    IF value.kind = "float" THEN [j |-> "number", v |-> value.v]
    ELSE [j |-> "array", v |-> value.v]
JsonEncodeLog(log) ==
    [k \in DOMAIN log |-> [i \in 1..Len(log[k]) |-> JsonEncodeValue(log[k][i])]]
JsonEncode(data) ==
    [dt |-> data.dt, state_log |-> JsonEncodeLog(data.state_log),
     rew_log |-> JsonEncodeLog(data.rew_log), num_episodes |-> data.num_episodes]
\* json.load: a number becomes a float, an array a list.
JsonDecodeValue(jv) == IF jv.j = "number" THEN F(jv.v[1]) ELSE L(jv.v)
JsonDecodeLog(jlog) ==
    [k \in DOMAIN jlog |-> [i \in 1..Len(jlog[k]) |-> JsonDecodeValue(jlog[k][i])]]
JsonDecode(text) ==
    [dt |-> text.dt, state_log |-> JsonDecodeLog(text.state_log),
     rew_log |-> JsonDecodeLog(text.rew_log), num_episodes |-> text.num_episodes]
\* pickle.dump / pickle.load keep every object as it is, its type included.
PickleEncode(data) == [obj |-> data]
PickleDecode(bytes) == bytes.obj

Truncated == [kind |-> "truncated", body |-> EmptyDict]

\* Logger.save(filename, format): mkdir, then the conversion of both logs, then
\* the branch on format.
SaveErr(format) ==
    IF convert_log_err(state_log) # "none" \/ convert_log_err(rew_log) # "none"
    THEN "AttributeError"
    ELSE IF format = "json"
         THEN IF JsonSerialisable(SaveData(dt, convert_log(state_log),
                                           convert_log(rew_log), num_episodes))
              THEN "none" ELSE "TypeError"
    ELSE IF format = "pkl" THEN "none"
    ELSE "ValueError"
SaveFile(format) ==
    LET data == SaveData(dt, convert_log(state_log), convert_log(rew_log), num_episodes)
    IN  IF SaveErr(format) = "AttributeError" THEN fs
        ELSE IF format = "json"
             THEN [fs EXCEPT !["json"] =
                       IF JsonSerialisable(data)
                       THEN [kind |-> "json", body |-> JsonEncode(data)]
                       ELSE Truncated]
        ELSE IF format = "pkl"
             THEN [fs EXCEPT !["pkl"] = [kind |-> "pkl", body |-> PickleEncode(data)]]
        ELSE fs
save(format) ==
    /\ CanCall
    /\ dir_made' = TRUE
    /\ fs' = SaveFile(format)
    /\ Called("save", <<format>>, SaveErr(format), EmptyDict)
    /\ UNCHANGED <<dt, state_log, rew_log, num_episodes, plot_process, procs, alive>>

\* Logger.load(filepath): the format is the suffix of the path.
LoadErr(format) ==
    IF format = "json"
    THEN IF fs["json"].kind = "absent" THEN "FileNotFoundError"
         ELSE IF fs["json"].kind = "truncated" THEN "JSONDecodeError"
         ELSE "none"
    ELSE IF format = "pkl"
         THEN IF fs["pkl"].kind = "absent" THEN "FileNotFoundError" ELSE "none"
    ELSE "ValueError"
LoadData(file) ==
    IF file.kind = "json" THEN JsonDecode(file.body) ELSE PickleDecode(file.body)
load(format) ==
    /\ CanCall
    /\ IF LoadErr(format) = "none"
       THEN LET data == LoadData(fs[format])
            IN  /\ dt' = data.dt
                /\ state_log' = data.state_log
                /\ rew_log' = data.rew_log
                /\ num_episodes' = data.num_episodes
       ELSE UNCHANGED <<dt, state_log, rew_log, num_episodes>>
    /\ Called("load", <<format>>, LoadErr(format), EmptyDict)
    /\ UNCHANGED <<plot_process, procs, alive, fs, dir_made>>

----------------------------------------------------------------------------
\* Logger.plot_states: a new Process(target=self._plot) is started and its handle
\* overwrites self.plot_process.
plot_states ==
    /\ CanCall
    /\ procs' = Append(procs, "running")
    /\ plot_process' = Len(procs) + 1
    /\ Called("plot_states", <<>>, "none", EmptyDict)
    /\ UNCHANGED <<dt, state_log, rew_log, num_episodes, alive, fs, dir_made>>

\* Logger._plot runs in the child until plt.show() returns (the window is closed)
\* or the child fails: the child process ends on its own.
plot_exit(p) ==
    /\ procs[p] = "running"
    /\ procs' = [procs EXCEPT ![p] = "exited"]
    /\ UNCHANGED <<dt, state_log, rew_log, num_episodes, plot_process, alive, fs,
                   dir_made, lastOp, calls>>
    /\ UNCHANGED <<parseVars, statsVars>>

\* Logger.__del__: kill() on the process self.plot_process refers to, if any.
Kill(ps, p) == IF ps[p] = "running" THEN [ps EXCEPT ![p] = "killed"] ELSE ps
del ==
    /\ alive
    /\ alive' = FALSE
    /\ procs' = IF plot_process # 0 THEN Kill(procs, plot_process) ELSE procs
    /\ lastOp' = [op |-> "del", arg |-> <<>>, err |-> "none", out |-> EmptyDict]
    /\ UNCHANGED <<dt, state_log, rew_log, num_episodes, plot_process, fs, dir_made,
                   calls>>
    /\ UNCHANGED <<parseVars, statsVars>>

LoggerNext ==
    \/ \E key \in StateKeys, value \in StateValues : log_state(key, value)
    \/ \E dict \in RewMappings, n \in EpisodeCounts : log_rewards(dict, n)
    \/ reset
    \/ print_rewards
    \/ \E format \in Formats : save(format)
    \/ \E format \in Formats : load(format)
    \/ plot_states
    \/ \E p \in DOMAIN procs : plot_exit(p)
    \/ del

----------------------------------------------------------------------------
\* Properties of the Logger.

IsCall == calls' = calls + 1
SupportedFormats == {"json", "pkl"}

\* What normalisation to plain nested lists/floats means for one value and a log.
Normalised(value) == IF value.kind \in {"ndarray", "tensor"} THEN L(value.v) ELSE value
NormalisedLog(log) ==
    [k \in DOMAIN log |-> [i \in 1..Len(log[k]) |-> Normalised(log[k][i])]]

\* C3 (as claimed): in every reachable state, save in a supported format succeeds
\* and loading the written file yields the same dt, num_episodes and the
\* normalised series of state_log and rew_log.
C3_RoundTrip ==
    (lastOp.op = "save" /\ lastOp.arg[1] \in SupportedFormats) =>
        /\ lastOp.err = "none"
        /\ LoadErr(lastOp.arg[1]) = "none"
        /\ LoadData(fs[lastOp.arg[1]]) =
               SaveData(dt, NormalisedLog(state_log), NormalisedLog(rew_log), num_episodes)

\* C4 (as claimed): when save runs, the conversion of both logs succeeds and
\* every value of every converted series, at any position, is a plain float or list
\* (the normalised form of the value recorded).
C4_AllValuesNormalised ==
    lastOp.op = "save" =>
        /\ convert_log_err(state_log) = "none"
        /\ convert_log_err(rew_log) = "none"
        /\ convert_log(state_log) = NormalisedLog(state_log)
        /\ convert_log(rew_log) = NormalisedLog(rew_log)

\* C5: a reset step empties state_log and rew_log and keeps dt and num_episodes;
\* a log_state(name, value) step that follows a reset leaves state_log holding
\* the one series name with the one value, and rew_log empty.
C5_ResetThenRecord ==
    [][IsCall =>
        /\ (lastOp'.op = "reset" =>
               /\ state_log' = EmptyDict
               /\ rew_log' = EmptyDict
               /\ dt' = dt
               /\ num_episodes' = num_episodes)
        /\ (lastOp.op = "reset" /\ lastOp'.op = "log_state" =>
               /\ DOMAIN state_log' = {lastOp'.arg[1]}
               /\ state_log'[lastOp'.arg[1]] = <<lastOp'.arg[2]>>
               /\ rew_log' = EmptyDict)
      ]_vars
\* rewards were recorded, then reset, then one state value was recorded
C5_Witness ==
    /\ lastOp.op = "log_state"
    /\ calls = 3
    /\ num_episodes > 0
    /\ rew_log = EmptyDict
    /\ Cardinality(DOMAIN state_log) = 1

\* C6: a log_rewards(mapping, count) step appends value * count under every name
\* of the mapping that contains "rew", touches no other series of rew_log, leaves
\* state_log and dt unchanged and adds count to num_episodes exactly once.
ContainsRew(name) ==
    \E i \in 1..(Len(name) - 2) : SubSeq(name, i, i + 2) = <<"r", "e", "w">>
C6_RecordRewards ==
    [][(IsCall /\ lastOp'.op = "log_rewards") =>
        LET mapping == lastOp'.arg[1]
            count   == lastOp'.arg[2]
            rewards == {name \in DOMAIN mapping : ContainsRew(name)}
        IN  /\ DOMAIN rew_log' = (DOMAIN rew_log) \cup rewards
            /\ \A name \in rewards :
                   rew_log'[name] = Append(Get(rew_log, name), F(mapping[name] * count))
            /\ \A name \in (DOMAIN rew_log) \ rewards : rew_log'[name] = rew_log[name]
            /\ state_log' = state_log
            /\ dt' = dt
            /\ num_episodes' = num_episodes + count
      ]_vars
\* {"total_rew": 2.0} with count 3 after five episodes had been counted: 6.0 is
\* appended and num_episodes is 8
C6_Witness ==
    /\ lastOp.op = "log_rewards"
    /\ lastOp.arg = <<[k \in {KeyRew} |-> 2], 3>>
    /\ num_episodes = 8
    /\ KeyRew \in DOMAIN rew_log
    /\ rew_log[KeyRew][Len(rew_log[KeyRew])] = F(6)
    /\ KeyCmd \notin DOMAIN rew_log

\* C7 (as claimed): a save with an unsupported format, and a load with an
\* unsupported suffix, end in ValueError and leave dt, state_log, rew_log,
\* num_episodes and the files as they were.
C7_UnsupportedFormat ==
    [][(IsCall /\ lastOp'.op \in {"save", "load"}
              /\ lastOp'.arg[1] \notin SupportedFormats) =>
        /\ lastOp'.err = "ValueError"
        /\ UNCHANGED <<dt, state_log, rew_log, num_episodes, fs>>
      ]_vars

\* C9 (as claimed): once the logger is destroyed, no process started by
\* plot_states is still running.
C9_NoTaskSurvives ==
    ~alive => \A p \in DOMAIN procs : procs[p] # "running"

\* sum of a reward series, from its last value to its first
RECURSIVE Total(_)
Total(values) ==
    IF Len(values) = 0 THEN 0
    ELSE values[Len(values)].v[1] + Total(SubSeq(values, 1, Len(values) - 1))
Reported == lastOp.op = "print_rewards"
Fails(out) == \E name \in DOMAIN out : ~IsFinite(out[name])

\* C10 (as claimed): print_rewards fails with a non-finite quotient whenever
\* num_episodes is zero, also when rew_log holds no series; otherwise it reports
\* sum(values) / num_episodes for every series.
C10_FailsWheneverZero ==
    Reported =>
        /\ (num_episodes = 0 => Fails(lastOp.out))
        /\ (num_episodes # 0 =>
               \A name \in DOMAIN rew_log :
                   lastOp.out[name] = <<Total(rew_log[name]), num_episodes>>)

\* C10 (amended): print_rewards reports one quotient per series of rew_log,
\* sum(values) / num_episodes; the quotient is non-finite exactly when
\* num_episodes is zero, so the call fails if and only if num_episodes is zero
\* and rew_log holds at least one series (with no series nothing is divided).
C10_FailsWhenZeroAndSeries ==
    Reported =>
        /\ DOMAIN lastOp.out = DOMAIN rew_log
        /\ \A name \in DOMAIN rew_log :
               /\ lastOp.out[name] = <<Total(rew_log[name]), num_episodes>>
               /\ IsFinite(lastOp.out[name]) <=> num_episodes # 0
        /\ Fails(lastOp.out) <=> (num_episodes = 0 /\ rew_log # EmptyDict)
\* a series recorded with an episode count of zero, then reported
C10_Witness ==
    /\ Reported
    /\ num_episodes = 0
    /\ rew_log # EmptyDict
    /\ Fails(lastOp.out)

----------------------------------------------------------------------------
\* parse_log_data (data_analyzer.py).
\*
\* A line of the log file is modelled by what the two regular expressions find in
\* it: step is int(group(1)) of the first "Step (\d+):" match (NoStep when the
\* line holds none), data is the captured list text split on ", " (empty when the
\* data pattern does not match; a match captures at least one character, hence at
\* least one token).  A token is a numeral float() accepts, or text it rejects
\* (the capture class [-\d\., ]+ admits "1.2.3", "-", "1,2").
NoStep == -1
Tok(x) == [num |-> TRUE, val |-> x]
BadTok == [num |-> FALSE, val |-> 0]
StepNumbers  == {0, 5}
DataCaptures == { <<>>, <<Tok(1)>>, <<Tok(3), Tok(-2)>>, <<BadTok>> }
LineSet == {[step |-> s, data |-> d] : s \in {NoStep} \cup StepNumbers, d \in DataCaptures}
MaxLines == 3
LogFiles == UNION {[1..n -> LineSet] : n \in 0..MaxLines}

Running == [status |-> "running", err |-> "none", steps |-> <<>>, matrix |-> <<>>,
            dtype |-> "none"]
Raised(err) == [status |-> "raised", err |-> err, steps |-> <<>>, matrix |-> <<>>,
                dtype |-> "none"]
Returned(st, m, dtype) == [status |-> "returned", err |-> "none", steps |-> st,
                           matrix |-> m, dtype |-> dtype]

ParseInit ==
    /\ lines \in LogFiles
    /\ pos = 0
    /\ current_step = NoStep
    /\ steps = <<>>
    /\ data_matrix = <<>>
    /\ parsed = Running

\* [float(x) for x in data_match.group(1).split(", ")]
AllNumerals(data) == \A i \in 1..Len(data) : data[i].num
Floats(data) == [i \in 1..Len(data) |-> data[i].val]

\* (variant: the data rule is applied before the step rule)
ParseLineDataFirst ==
    /\ parsed.status = "running"
    /\ pos < Len(lines)
    /\ LET line == lines[pos + 1]
       IN  /\ current_step' = IF line.step # NoStep THEN line.step ELSE current_step
           /\ IF line.data # <<>> /\ current_step # NoStep
              THEN /\ steps' = Append(steps, current_step)
                   /\ IF AllNumerals(line.data)
                      THEN /\ data_matrix' = Append(data_matrix, Floats(line.data))
                           /\ UNCHANGED parsed
                      ELSE /\ parsed' = Raised("ValueError")
                           /\ UNCHANGED data_matrix
              ELSE UNCHANGED <<steps, data_matrix, parsed>>
    /\ pos' = pos + 1
    /\ UNCHANGED <<lines, loggerVars, statsVars>>
\* One iteration of "for line in f": the step rule first, then the data rule with
\* the step just set; steps.append comes before the floats are parsed, and a token
\* float() rejects raises ValueError out of the function.
ParseLine ==
    /\ parsed.status = "running"
    /\ pos < Len(lines)
    /\ LET line == lines[pos + 1]
           step == IF line.step # NoStep THEN line.step ELSE current_step
       IN  /\ current_step' = step
           /\ IF line.data # <<>> /\ step # NoStep
              THEN /\ steps' = Append(steps, step)
                   /\ IF AllNumerals(line.data)
                      THEN /\ data_matrix' = Append(data_matrix, Floats(line.data))
                           /\ UNCHANGED parsed
                      ELSE /\ parsed' = Raised("ValueError")
                           /\ UNCHANGED data_matrix
              ELSE UNCHANGED <<steps, data_matrix, parsed>>
    /\ pos' = pos + 1
    /\ UNCHANGED <<lines, loggerVars, statsVars>>

\* return steps, np.array(data_matrix).  Rows of equal length give a 2-D float
\* array.  For rows of different lengths the outcome depends on the numpy
\* installed: a 1-D array of dtype object holding the lists as they are (with a
\* deprecation warning, up to numpy 1.23), or ValueError (from numpy 1.24).
Rectangular(m) == \A i, j \in 1..Len(m) : Len(m[i]) = Len(m[j])
ParseReturn ==
    /\ parsed.status = "running"
    /\ pos = Len(lines)
    /\ \/ /\ Rectangular(data_matrix)
          /\ parsed' = Returned(steps, data_matrix, "float64")
       \/ /\ ~Rectangular(data_matrix)
          /\ parsed' = Returned(steps, data_matrix, "object")
       \/ /\ ~Rectangular(data_matrix)
          /\ parsed' = Raised("ValueError")
    /\ UNCHANGED <<lines, pos, current_step, steps, data_matrix, loggerVars, statsVars>>

ParseNext == ParseLine \/ ParseReturn

----------------------------------------------------------------------------
\* calculate_stats (data_analyzer.py): per column (axis=0) of a non-empty 2-D
\* array.  A mean is the pair <<sum, N>>; the population standard deviation is
\* kept as the variance under the root, sqrt(<<N * sum(x^2) - sum(x)^2, N^2>>).
MaxRows == 2
MaxCols == 2
StatValues == {-2, -1, 0, 3}
Matrices == UNION {[1..r -> [1..c -> StatValues]] : r \in 1..MaxRows, c \in 1..MaxCols}
NoStats == [max_abs |-> <<>>, mean |-> <<>>, mean_abs |-> <<>>, std |-> <<>>]

Abs(x) == IF x < 0 THEN -x ELSE x
Column(m, c) == [r \in 1..Len(m) |-> m[r][c]]
AbsOf(col) == [r \in 1..Len(col) |-> Abs(col[r])]
SquaresOf(col) == [r \in 1..Len(col) |-> col[r] * col[r]]
MaxOf(col) == CHOOSE x \in {col[r] : r \in 1..Len(col)} :
                  \A r \in 1..Len(col) : col[r] <= x
Mean(col) == <<SumSeq(col), Len(col)>>
Std(col) == [sqrt |-> <<Len(col) * SumSeq(SquaresOf(col)) - SumSeq(col) * SumSeq(col),
                        Len(col) * Len(col)>>]
\* (variant: "mean" taken over the absolute values)
calculate_stats_abs_mean(m) ==
    LET cols == 1..Len(m[1])
    IN  [max_abs  |-> [c \in cols |-> MaxOf(AbsOf(Column(m, c)))],
         mean     |-> [c \in cols |-> Mean(AbsOf(Column(m, c)))],
         mean_abs |-> [c \in cols |-> Mean(AbsOf(Column(m, c)))],
         std      |-> [c \in cols |-> Std(Column(m, c))]]
calculate_stats(m) ==
    LET cols == 1..Len(m[1])
    IN  [max_abs  |-> [c \in cols |-> MaxOf(AbsOf(Column(m, c)))],
         mean     |-> [c \in cols |-> Mean(Column(m, c))],
         mean_abs |-> [c \in cols |-> Mean(AbsOf(Column(m, c)))],
         std      |-> [c \in cols |-> Std(Column(m, c))]]

StatsInit ==
    /\ matrix \in Matrices
    /\ stats = NoStats
Calculate ==
    /\ stats = NoStats
    /\ stats' = calculate_stats(matrix)
    /\ UNCHANGED <<matrix, loggerVars, parseVars>>
StatsNext == Calculate

----------------------------------------------------------------------------
\* Properties of parse_log_data.

\* C1 (as claimed): whatever parse_log_data returns has as many steps as matrix
\* rows, and all rows of the matrix have the same length.
C1_RowsSameLength ==
    parsed.status = "returned" =>
        /\ Len(parsed.steps) = Len(parsed.matrix)
        /\ \A i, j \in 1..Len(parsed.matrix) :
               Len(parsed.matrix[i]) = Len(parsed.matrix[j])

\* The records the scan of the first n lines is to emit: one per line that matches
\* the data rule and has a step-declaration line at or before it, carrying the
\* step of the latest such line.
Declares(i) == lines[i].step # NoStep
Emits(i) == lines[i].data # <<>> /\ \E j \in 1..i : Declares(j)
LatestDeclaration(i) ==
    CHOOSE j \in 1..i : Declares(j) /\ \A k \in (j + 1)..i : ~Declares(k)
RECURSIVE Records(_)
Records(n) ==
    IF n = 0 THEN <<>>
    ELSE IF Emits(n)
         THEN Append(Records(n - 1),
                     [step |-> lines[LatestDeclaration(n)].step,
                      values |-> [t \in 1..Len(lines[n].data) |-> lines[n].data[t].val]])
         ELSE Records(n - 1)

\* C2: while the scan runs and when it has returned, steps and data_matrix hold
\* exactly the records due for the lines consumed, in line order.
C2_OneRecordPerDataLine ==
    parsed.status # "raised" =>
        LET due == Records(pos)
        IN  /\ Len(steps) = Len(due)
            /\ Len(data_matrix) = Len(due)
            /\ \A r \in 1..Len(due) :
                   steps[r] = due[r].step /\ data_matrix[r] = due[r].values
\* a data line before any step, then two lines that match both rules, with step
\* numbers 0 and 5: two records, each with the step its own line declares
C2_Witness ==
    /\ parsed.status = "returned"
    /\ Len(lines) = 3
    /\ lines[1].step = NoStep /\ lines[1].data # <<>>
    /\ lines[2].step = 0 /\ lines[2].data # <<>>
    /\ lines[3].step = 5 /\ lines[3].data # <<>>
    /\ steps = <<0, 5>>

----------------------------------------------------------------------------
\* Properties of calculate_stats.

Computed == stats # NoStats
SingleRow == Len(matrix) = 1
ZeroStd(s) == s.sqrt[1] = 0 /\ s.sqrt[2] # 0
\* the quotient q equals the integer x
Equals(q, x) == q[2] # 0 /\ q[1] = x * q[2]

\* C8 (as claimed): for a single row whose entries are all positive or all
\* negative, std is 0 and mean = mean_abs = |value| in every channel.
C8_SingleRowAnySign ==
    (Computed /\ SingleRow
       /\ (\/ \A c \in 1..Len(matrix[1]) : matrix[1][c] > 0
           \/ \A c \in 1..Len(matrix[1]) : matrix[1][c] < 0)) =>
        \A c \in 1..Len(matrix[1]) :
            /\ ZeroStd(stats.std[c])
            /\ Equals(stats.mean[c], Abs(matrix[1][c]))
            /\ Equals(stats.mean_abs[c], Abs(matrix[1][c]))

\* C8 (amended): for a single row, std is 0, mean is the value itself and
\* mean_abs (and max_abs) its absolute value in every channel; so
\* mean = mean_abs = |value| in the channels whose value is not negative, and
\* mean = -mean_abs where it is negative.
C8_SingleRow ==
    (Computed /\ SingleRow) =>
        \A c \in 1..Len(matrix[1]) :
            /\ ZeroStd(stats.std[c])
            /\ Equals(stats.mean[c], matrix[1][c])
            /\ Equals(stats.mean_abs[c], Abs(matrix[1][c]))
            /\ stats.max_abs[c] = Abs(matrix[1][c])
            /\ (matrix[1][c] >= 0 => stats.mean[c] = stats.mean_abs[c])
            /\ (matrix[1][c] < 0 => stats.mean[c][1] = -stats.mean_abs[c][1])
\* a single row of two negative entries: mean is the value, mean_abs its opposite
C8_Witness ==
    /\ Computed /\ SingleRow
    /\ Len(matrix[1]) = 2
    /\ matrix[1][1] < 0 /\ matrix[1][2] < 0
    /\ stats.mean[1] # stats.mean_abs[1]

----------------------------------------------------------------------------
\* The specifications.  Each component runs on its own; the variables of the
\* other components stay as they are initially.
LoggerIdle ==
    /\ dt = 1 /\ state_log = EmptyDict /\ rew_log = EmptyDict /\ num_episodes = 0
    /\ plot_process = 0 /\ procs = <<>> /\ alive = TRUE
    /\ fs = [f \in {"json", "pkl"} |-> NoFile] /\ dir_made = FALSE
    /\ lastOp = NoOp /\ calls = 0
ParseIdle ==
    /\ lines = <<>> /\ pos = 0 /\ current_step = NoStep /\ steps = <<>>
    /\ data_matrix = <<>> /\ parsed = Running
StatsIdle ==
    /\ matrix = <<>> /\ stats = NoStats

\* the Logger
Init == LoggerInit /\ ParseIdle /\ StatsIdle
Next == LoggerNext
Spec == Init /\ [][Next]_vars

\* parse_log_data
InitParse == ParseInit /\ LoggerIdle /\ StatsIdle
SpecParse == InitParse /\ [][ParseNext]_vars

\* calculate_stats
InitStats == StatsInit /\ LoggerIdle /\ ParseIdle
SpecStats == InitStats /\ [][StatsNext]_vars
====
